---- MODULE Spec2Model ----
(***************************************************************************)
(* FindAndReplaceUI (find-and-replace/findandreplaceui): the wiring        *)
(* between the dropdown, the form view and the editing state of the find   *)
(* and replace feature.                                                    *)
(*                                                                         *)
(* The model covers one dropdown created by the component factory          *)
(* callback, the listeners it registers (change:isOpen, the                *)
(* highlightOffset binding, the results 'change' listener, change:isDirty) *)
(* and the editing state those listeners observe.                          *)
(***************************************************************************)
EXTENDS Integers, Sequences, FiniteSets

\* Largest number of results the editing state holds at a time.
MaxResults == 3
\* Number of distinct document positions a marker may start at.
MaxPos == 3

Positions == 1..MaxPos
\* null / undefined
None == 0
\* A result object that is no longer an item of editingState.results
Stale == -1

VARIABLES
    formView,           \* this.formView: "null" until the factory callback ran
    results,            \* editingState.results in insertion order; results[i] is
                        \* the position result i's marker starts at
    highlightedResult,  \* editingState.highlightedResult: None, Stale or the
                        \* index in results of the result referred to
    highlightOffset,    \* formView.highlightOffset
    matchCount,         \* formView.matchCount
    isOpen,             \* dropdown.isOpen
    isDirty,            \* formView.isDirty
    fired,              \* events fired by the plugin during the last step
    formCalls,          \* formView methods called during the last step
    changeHandled,      \* the results 'change' listener ran at least once
    lastOp              \* the last step taken; arg: the value given to highlightedResult

vars == << formView, results, highlightedResult, highlightOffset,
           matchCount, isOpen, isDirty, fired, formCalls, changeHandled, lastOp >>

----------------------------------------------------------------------------
\* Helpers on sequences

\* The result objects that are items of the collection
Items(collection) == 1..Len(collection)

Last(s) == s[Len(s)]

Front(s) == SubSeq(s, 1, Len(s) - 1)

RemoveAt(s, i) == SubSeq(s, 1, i - 1) \o SubSeq(s, i + 1, Len(s))

----------------------------------------------------------------------------
\* The highlightOffset binding callback

\* Position#compareWith for positions of one root
compareWith(p, q) ==
    IF p < q THEN "before" ELSE IF p = q THEN "same" ELSE "after"

sortMapping_Reversed == [ before |-> 1, same |-> 0, after |-> -1 ]

sortMapping_TieBefore == [ before |-> -1, same |-> -1, after |-> 1 ]

sortMapping == [ before |-> -1, same |-> 0, after |-> 1 ]

\* ( a, b ) => sortMapping[ a.marker.getStart().compareWith( b.marker.getStart() ) ]
compareFn(a, b) == sortMapping[ compareWith(results[a], results[b]) ]

\* Array.prototype.sort with a comparator: a stable sort.  The element x is
\* placed behind every element that does not compare greater than it.
RECURSIVE InsertSorted(_, _)
InsertSorted(x, s) ==
    IF s = << >> THEN << x >>
    ELSE IF compareFn(x, Head(s)) < 0
         THEN << x >> \o s
         ELSE << Head(s) >> \o InsertSorted(x, Tail(s))

RECURSIVE sort(_)
sort(arr) ==
    IF arr = << >> THEN << >>
    ELSE InsertSorted(Last(arr), sort(Front(arr)))

indexOf_NotFoundLength(arr, x) ==
    IF \E i \in 1..Len(arr) : arr[i] = x
    THEN (CHOOSE i \in 1..Len(arr) :
              arr[i] = x /\ \A j \in 1..(i - 1) : arr[j] # x) - 1
    ELSE Len(arr)

\* Array.prototype.indexOf: 0-based index of the first occurrence, -1 if absent
indexOf(arr, x) ==
    IF \E i \in 1..Len(arr) : arr[i] = x
    THEN (CHOOSE i \in 1..Len(arr) :
              arr[i] = x /\ \A j \in 1..(i - 1) : arr[j] # x) - 1
    ELSE -1

\* Array.from( collection ): a new array of references to the items, in
\* iteration order
ArrayFrom(collection) == [ i \in 1..Len(collection) |-> i ]

SortedCopy_InPlace(collection) ==
    LET sorted == sort(ArrayFrom(collection))
    IN  [ collection |-> [ i \in 1..Len(collection) |-> collection[sorted[i]] ],
          array |-> sorted ]

\* Array.from( editingState.results ).sort( ... ): the copy is sorted in
\* place, the collection keeps its items and their order.
SortedCopy(collection) ==
    [ collection |-> collection, array |-> sort(ArrayFrom(collection)) ]

highlightOffsetCallback_ZeroBased(h) ==
    IF h = None
    THEN [ ret |-> 0, results |-> results ]
    ELSE LET s == SortedCopy(results)
         IN  [ ret |-> indexOf(s.array, h), results |-> s.collection ]

highlightOffsetCallback_NoneNotFound(h) ==
    IF h = None
    THEN [ ret |-> -1, results |-> results ]
    ELSE LET s == SortedCopy(results)
         IN  [ ret |-> indexOf(s.array, h) + 1, results |-> s.collection ]

\* highlightedResult => { ... }: the value returned and the collection as the
\* callback leaves it.
highlightOffsetCallback(h) ==
    IF h = None
    THEN [ ret |-> 0, results |-> results ]
    ELSE LET s == SortedCopy(results)
         IN  [ ret |-> indexOf(s.array, h) + 1, results |-> s.collection ]

----------------------------------------------------------------------------
\* Listeners

onResultsChange_OnlyWhenGrowing(newResults) ==
    IF Len(newResults) > matchCount THEN Len(newResults) ELSE matchCount

\* formView.listenTo( editingState.results, 'change', ... ): the new matchCount
onResultsChange(newResults) == Len(newResults)

onChangeIsDirty_Always(dirty) == << "searchReseted" >>

\* formView.on( 'change:isDirty', ... ): the events fired
onChangeIsDirty(dirty) ==
    IF dirty THEN << "searchReseted" >> ELSE << >>

onChangeIsOpen_FireOnOpen(open) ==
    IF open
    THEN [ calls |-> << "disableCssTransitions", "reset", "select", "focus",
                        "enableCssTransitions" >>,
           fired |-> << "searchReseted" >> ]
    ELSE [ calls |-> << "focus" >>, fired |-> << >> ]

\* dropdown.on( 'change:isOpen', ... ): the form view methods called, in
\* order, and the events fired
onChangeIsOpen(open) ==
    IF open
    THEN [ calls |-> << "disableCssTransitions", "reset", "select", "focus",
                        "enableCssTransitions" >>,
           fired |-> << >> ]
    ELSE [ calls |-> << "focus" >>, fired |-> << "searchReseted" >> ]

----------------------------------------------------------------------------
\* State machine

Init ==
    /\ formView = "null"
    /\ results = << >>
    /\ highlightedResult = None
    /\ highlightOffset = 0
    /\ matchCount = 0
    /\ isOpen = FALSE
    /\ isDirty = FALSE
    /\ fired = << >>
    /\ formCalls = << >>
    /\ changeHandled = FALSE
    /\ lastOp = [ op |-> "init", arg |-> None ]

\* The component factory callback of init(): creates the dropdown and the
\* form view and registers the listeners.  bind().to() sets the bound
\* property from the current value of its source.
CreateDropdown ==
    /\ formView = "null"
    /\ formView' = "created"
    /\ LET cb == highlightOffsetCallback(highlightedResult)
       IN  /\ highlightOffset' = cb.ret
           /\ results' = cb.results
    /\ fired' = << >>
    /\ formCalls' = << >>
    /\ lastOp' = [ op |-> "create", arg |-> None ]
    /\ UNCHANGED << highlightedResult, matchCount, isOpen, isDirty, changeHandled >>

\* The listeners of the results collection, run on its 'change' event.
ResultsChanged(newResults) ==
    IF formView = "created"
    THEN /\ matchCount' = onResultsChange(newResults)
         /\ changeHandled' = TRUE
    ELSE UNCHANGED << matchCount, changeHandled >>

\* editingState.results.add( result ), the marker of result starting at p
AddResult(p) ==
    /\ Len(results) < MaxResults
    /\ results' = Append(results, p)
    /\ ResultsChanged(results')
    /\ fired' = << >>
    /\ formCalls' = << >>
    /\ lastOp' = [ op |-> "add", arg |-> None ]
    /\ UNCHANGED << formView, highlightedResult, highlightOffset, isOpen, isDirty >>

\* editingState.results.remove( result ), result being item r.  The property
\* highlightedResult keeps referring to the same object: to none, to the
\* removed result (now Stale) or to an item, whose index may have moved.
RemoveResult(r) ==
    /\ r \in Items(results)
    /\ results' = RemoveAt(results, r)
    /\ highlightedResult' =
           IF highlightedResult = r THEN Stale
           ELSE IF highlightedResult > r THEN highlightedResult - 1
           ELSE highlightedResult
    /\ ResultsChanged(results')
    /\ fired' = << >>
    /\ formCalls' = << >>
    /\ lastOp' = [ op |-> "remove", arg |-> None ]
    /\ UNCHANGED << formView, highlightOffset, isOpen, isDirty >>

\* editingState.highlightedResult = h: the binding recomputes
\* formView.highlightOffset when the property changes.
SetHighlightedResult(h) ==
    /\ h \in Items(results) \cup { None }
    /\ h # highlightedResult
    /\ highlightedResult' = h
    /\ IF formView = "created"
       THEN LET cb == highlightOffsetCallback(h)
            IN  /\ highlightOffset' = cb.ret
                /\ results' = cb.results
       ELSE UNCHANGED << highlightOffset, results >>
    /\ fired' = << >>
    /\ formCalls' = << >>
    /\ lastOp' = [ op |-> "setHighlightedResult", arg |-> h ]
    /\ UNCHANGED << formView, matchCount, isOpen, isDirty, changeHandled >>

\* dropdown.isOpen = open: change:isOpen is fired when the value changes.
SetIsOpen(open, op) ==
    /\ formView = "created"
    /\ isOpen' = open
    /\ IF open # isOpen
       THEN LET h == onChangeIsOpen(open)
            IN  /\ formCalls' = h.calls
                /\ fired' = h.fired
       ELSE /\ formCalls' = << >>
            /\ fired' = << >>
    /\ lastOp' = [ op |-> op, arg |-> None ]
    /\ UNCHANGED << formView, results, highlightedResult,
                    highlightOffset, matchCount, isDirty, changeHandled >>

\* The Ctrl+F keystroke of _setupDropdownButton()
KeystrokeCtrlF == SetIsOpen(TRUE, "ctrlF")

\* The dropdown button or Esc toggles the panel
ToggleDropdown == SetIsOpen(~isOpen, "toggle")

\* formView.isDirty = dirty: change:isDirty is fired when the value changes.
SetIsDirty(dirty) ==
    /\ formView = "created"
    /\ isDirty' = dirty
    /\ fired' = IF dirty # isDirty THEN onChangeIsDirty(dirty) ELSE << >>
    /\ formCalls' = << >>
    /\ lastOp' = [ op |-> "setIsDirty", arg |-> None ]
    /\ UNCHANGED << formView, results, highlightedResult,
                    highlightOffset, matchCount, isOpen, changeHandled >>

Next ==
    \/ CreateDropdown
    \/ \E p \in Positions : AddResult(p)
    \/ \E r \in 1..MaxResults : RemoveResult(r)
    \/ \E h \in 1..MaxResults \cup { None } : SetHighlightedResult(h)
    \/ KeystrokeCtrlF
    \/ ToggleDropdown
    \/ \E dirty \in BOOLEAN : SetIsDirty(dirty)

Spec == Init /\ [][Next]_vars

----------------------------------------------------------------------------
\* Properties

\* The ordinal of h among R in position order, ties in insertion order;
\* 0 when h is none or not in R.
OrdinalOf(R, h) ==
    IF h \notin Items(R)
    THEN 0
    ELSE 1 + Cardinality({ r \in Items(R) : R[r] < R[h] })
           + Cardinality({ r \in Items(R) : R[r] = R[h] /\ r < h })

\* The binding callback ran in the last step
CallbackRan ==
    /\ formView = "created"
    /\ lastOp.op \in { "create", "setHighlightedResult" }

CalledBefore(calls, a, b) ==
    \E i, j \in 1..Len(calls) : i < j /\ calls[i] = a /\ calls[j] = b

\* C1: whenever the form exists and the highlighted result is none or a
\* member of the results, formView.highlightOffset is the ordinal of the
\* highlighted result among the current results in position order.
C1_OffsetFollowsResults ==
    (formView = "created" /\ highlightedResult # Stale)
        => highlightOffset = OrdinalOf(results, highlightedResult)

\* C2: for every member h of the results the callback returns a value in
\* 1..|results|, and so is the offset displayed right after the callback ran.
C2_OffsetInRange ==
    /\ \A h \in Items(results) :
           highlightOffsetCallback(h).ret \in 1..Len(results)
    /\ (CallbackRan /\ highlightedResult \in Items(results))
           => highlightOffset \in 1..Len(results)

C2_Witness ==
    /\ CallbackRan
    /\ lastOp.op = "setHighlightedResult"
    /\ Len(results) = MaxResults
    /\ highlightedResult \in Items(results)
    /\ highlightOffset = MaxResults

\* C3: for a none highlightedResult the callback returns 0 whatever the
\* results are, and 0 is displayed right after the callback ran.
C3_NoneGivesZero ==
    /\ highlightOffsetCallback(None).ret = 0
    /\ (CallbackRan /\ highlightedResult = None) => highlightOffset = 0

C3_Witness ==
    /\ CallbackRan
    /\ lastOp.op = "setHighlightedResult"
    /\ highlightedResult = None
    /\ Len(results) >= 2
    /\ sort(ArrayFrom(results)) # ArrayFrom(results)
    /\ highlightOffset = 0

\* C4: of two members of the results, the one whose marker starts strictly
\* before the other's gets the strictly smaller offset.
C4_Monotonic ==
    \A h1, h2 \in Items(results) :
        results[h1] < results[h2]
            => highlightOffsetCallback(h1).ret < highlightOffsetCallback(h2).ret

C4_Witness ==
    /\ CallbackRan
    /\ Len(results) >= 2
    /\ results[2] < results[1]
    /\ highlightedResult = 2
    /\ highlightOffset = 1

\* C5: of two members of the results at the same position the one inserted
\* earlier gets the smaller offset; the offset of h is 1 + the number of
\* results strictly before h + the number of results at the position of h
\* inserted before h.
C5_Stable ==
    /\ \A h1, h2 \in Items(results) :
           (results[h1] = results[h2] /\ h1 < h2)
               => highlightOffsetCallback(h1).ret < highlightOffsetCallback(h2).ret
    /\ \A h \in Items(results) :
           highlightOffsetCallback(h).ret = OrdinalOf(results, h)

C5_Witness ==
    /\ CallbackRan
    /\ Len(results) = 3
    /\ results[1] = results[3]
    /\ results[2] < results[1]
    /\ highlightedResult = 3
    /\ highlightOffset = 3

\* C6: a step in which the callback runs leaves editingState.results as it
\* was, items and order, and highlightedResult holds the value it was given.
C6_CallbackKeepsResults ==
    [][ (formView' = "created" /\ lastOp'.op \in { "create", "setHighlightedResult" })
            => /\ results' = results
               /\ highlightedResult' =
                      IF lastOp'.op = "create" THEN highlightedResult ELSE lastOp'.arg
      ]_vars

C6_Witness ==
    /\ CallbackRan
    /\ highlightedResult \in Items(results)
    /\ sort(ArrayFrom(results)) # ArrayFrom(results)
    /\ highlightOffset = OrdinalOf(results, highlightedResult)

\* C7: once the 'change' listener of the results has run, matchCount is the
\* size of the results, after additions and removals alike.
C7_MatchCount ==
    /\ changeHandled => matchCount = Len(results)
    /\ (formView = "created" /\ lastOp.op \in { "add", "remove" })
           => (changeHandled /\ matchCount = Len(results))

C7_Witness ==
    /\ formView = "created"
    /\ lastOp.op = "remove"
    /\ changeHandled
    /\ Len(results) >= 1
    /\ matchCount = Len(results)

\* C8: a step that changes isDirty to true fires exactly one 'searchReseted',
\* a step that sets isDirty otherwise fires nothing.
C8_DirtyFiresReset ==
    [][ lastOp'.op = "setIsDirty"
            => fired' = IF isDirty' /\ ~isDirty THEN << "searchReseted" >> ELSE << >>
      ]_vars

C8_Witness ==
    /\ lastOp.op = "setIsDirty"
    /\ isDirty
    /\ fired = << "searchReseted" >>
    /\ Len(results) >= 1

C10_StaleGivesZero ==
    /\ highlightOffsetCallback(Stale).ret = 0
    /\ (CallbackRan /\ highlightedResult = Stale) => highlightOffset = 0

C10_Witness ==
    /\ CallbackRan
    /\ highlightedResult = Stale
    /\ Len(results) >= 2
    /\ highlightOffset = 0

====
